---- MODULE Spec2Model ----
(***************************************************************************)
(* Model of LSTM_Model.py: the data preparation helpers                    *)
(* (extract_vocab_dict_and_msl, convert_to_ids, get_glove_embeddings,      *)
(* get_glove_table), the length computation of SentimentLSTM.forward, and  *)
(* the training / evaluation loop with its checkpoint file.                *)
(*                                                                         *)
(* The tensor arithmetic of the framework is not modelled: a forward pass  *)
(* yields nondeterministic predictions.  What is modelled of the network   *)
(* is what the script itself decides: which slices it hands to the model,  *)
(* in which mode (train / eval) the model is, when the optimizer steps,    *)
(* and what is saved to and loaded from the checkpoint file.               *)
(***************************************************************************)
EXTENDS Integers, Sequences, FiniteSets, TLC

\* ------------------------------------------------------------------ bounds
MaxExamples == 2      \* each data set has 1..MaxExamples examples
MaxBatchSize == 2     \* args.batch_size ranges over 1..MaxBatchSize
MaxEpochs == 2        \* args.n_epochs ranges over 1..MaxEpochs
MaxTokens == 2        \* a sentence has 0..MaxTokens tokens
MaxSentences == 2     \* the corpus / an array of raw sentences has 0..MaxSentences sentences
MaxRows == 1          \* the batch that is embedded has 0..MaxRows sentences
MaxPad == 2           \* an explicitly configured args.seq_len is 0..MaxPad
MaxLines == 1         \* the pretrained file has 0..MaxLines lines before its last piece
embedding_dim == 2    \* args.embedding_dim and the literal 50 of lines 107-113, 135, scaled down

\* ------------------------------------------------------------- variables
VARIABLES
    \* ---- training / evaluation loop (lines 186-228)
    TRAIN, SAVE_MODEL,   \* line 34
    args,                \* [batch_size, n_epochs]                (Args)
    len_x,               \* [train, val, dev]: len(x_train), len(x_val), len(x_dev)
    pc,                  \* position of the script
    epoch,               \* loop variable of line 191
    batch,               \* loop variable of lines 60 / 197
    slices,              \* the slices x[inds] handed to the model in the current pass
    correct,             \* number of right predictions accumulated by the current acc call
    model,               \* [params, running, training]
    acc_train, acc_val, acc_dev_best, acc_test,
    file,                \* content of "lstm_sentiment_cleanData.pt"
    hist,                \* history: one record per finished checkpoint check
    \* ---- data preparation (lines 69-114, 129-138, 160-181)
    x_train_raw, x_dev_raw, x_val_raw,   \* raw sentences of the three splits
    token_ids, msl,      \* result of extract_vocab_dict_and_msl (line 161)
    seq_len,             \* args.seq_len
    glove,               \* content of "glove.6B.50d.txt"
    glove_embeddings,    \* result of get_glove_embeddings (line 167)
    x_train, x_dev, x_val,   \* results of convert_to_ids (lines 170-172)
    look_up_table,       \* result of get_glove_table (line 180)
    lenghts              \* the list built in forward (lines 133-136)

trainVars == <<TRAIN, SAVE_MODEL, args, len_x, pc, epoch, batch, slices, correct,
               model, acc_train, acc_val, acc_dev_best, acc_test, file, hist>>

prepVars == <<x_train_raw, x_dev_raw, x_val_raw, token_ids, msl, seq_len, glove,
              glove_embeddings, x_train, x_dev, x_val, look_up_table, lenghts>>

vars == <<trainVars, prepVars>>

\* ------------------------------------------------------------- helpers
Min(a, b) == IF a < b THEN a ELSE b

Unbound == -1                       \* a Python name that is not bound yet
\* The checkpoint file is a sequence: empty when the file does not exist,
\* otherwise <<the state_dict it holds>>.
NoFile == <<>>
\* a checkpoint left on disk by an earlier run of the script
StaleState == [params |-> -1, running |-> -1]

\* Python: x[slice(start, stop)] on a sequence of n examples; the examples
\* are named by their 0-based positions.  Out-of-range bounds are clipped.
Slice(n, start, stop) ==
    [i \in 1..(Min(stop, n) - Min(start, n)) |-> Min(start, n) + i - 1]

\* inds of lines 61 / 198
inds(n, b) == Slice(n, b * args.batch_size, (b + 1) * args.batch_size)

\* range(len(x) // args.batch_size + 1) of lines 60 / 197
n_batches(n) == n \div args.batch_size + 1

\* model.state_dict(): the learnt parameters and the buffers (the running
\* statistics of bn_mean); the train/eval flag is not part of it.
state_dict(m) == [params |-> m.params, running |-> m.running]

\* model(x[inds]): self.bn_mean (line 145) is a BatchNorm1d; in training
\* mode every forward pass updates its running statistics, which are part of
\* state_dict; in evaluation mode the forward pass changes nothing.
forward(m) ==
    IF m.training THEN [m EXCEPT !.running = @ + 1] ELSE m

\* optimizer.step() (line 203): the parameters change.
optimizer_step(m) == [m EXCEPT !.params = @ + 1]

\* 100*accuracy_score(y, pred_labels): c right predictions out of n.  The
\* value is the rational 100*c/n; it is kept as the numerator 100*c, the
\* denominator being len(y) of the data set (fixed during a run).
accuracy_score100(c) == 100 * c

\* the condition of line 217 with >= in place of > (used to test C2)
improves_or_ties(a, best, save) == a >= best /\ save

\* the condition of line 217
improves(a, best, save) == a > best /\ save

\* the data set the acc call at position p works on
acc_len(p) ==
    CASE p = "acc_train" -> len_x.train
      [] p = "acc_val"   -> len_x.val
      [] p = "acc_test"  -> len_x.dev


\* ======================================================================
\* Data preparation: values and pure functions
\* ======================================================================
Range(f) == {f[i] : i \in DOMAIN f}
SeqsUpTo(S, n) == UNION {[1..k -> S] : k \in 0..n}

Tokens == {"good", "bad"}

\* A raw sentence is represented by the sequence of tokens that
\* nltk.word_tokenize yields for it (lines 73, 85).
Sentences == SeqsUpTo(Tokens, MaxTokens)
Splits == SeqsUpTo(Sentences, MaxSentences)
Batches == SeqsUpTo(Sentences, MaxRows)

EmptyDict == [k \in {} |-> 0]

\* d[k] = v on a Python dict
dict_set(d, k, v) == [x \in (DOMAIN d) \cup {k} |-> IF x = k THEN v ELSE d[x]]

\* d[k] on a Python dict: the value, or KeyError
dict_get(d, k) ==
    IF k \in DOMAIN d THEN [raised |-> FALSE, value |-> d[k]]
                      ELSE [raised |-> TRUE, value |-> 0]

\* ---- extract_vocab_dict_and_msl (lines 69-78)
\* the loop of lines 72-76 over the concatenated splits
RECURSIVE extract_loop(_, _, _)
extract_loop(sentences, tokens, ms_len) ==
    IF sentences = <<>> THEN [tokens |-> tokens, ms_len |-> ms_len]
    ELSE LET tokens_in_sentence == Head(sentences)
         IN  extract_loop(Tail(sentences), tokens \o tokens_in_sentence,
                          IF ms_len < Len(tokens_in_sentence)
                             THEN Len(tokens_in_sentence) ELSE ms_len)

\* the orders in which iterating over the Python set S may yield its elements
Orders(S) == {o \in [1..Cardinality(S) -> S] : Range(o) = S}

\* line 77 with range(0, len(set(tokens))) (used to test C5)
zip_ids_from_zero(order) ==
    [t \in Range(order) |-> (CHOOSE i \in 1..Len(order) : order[i] = t) - 1]

\* line 77: {key: i for key, i in zip(set(tokens), range(1, len(set(tokens))+1))},
\* order being the iteration order of set(tokens)
zip_ids(order) ==
    [t \in Range(order) |-> CHOOSE i \in 1..Len(order) : order[i] = t]

\* the vocabularies extract_vocab_dict_and_msl can return
Vocabs == UNION {{zip_ids(o) : o \in Orders(S)} : S \in SUBSET Tokens}

\* ---- convert_to_ids (lines 80-94)
\* lines 86-89 with a handler that appends the padding id (used to test C7)
lookup_or_pad(vocab_dict, token) ==
    LET try == dict_get(vocab_dict, token)
    IN  IF ~try.raised THEN try ELSE [raised |-> FALSE, value |-> 0]

\* lines 86-89: try: vocab_dict[token]  except: vocab_dict[token]
lookup(vocab_dict, token) ==
    LET try == dict_get(vocab_dict, token)
    IN  IF ~try.raised THEN try ELSE dict_get(vocab_dict, token)

\* lines 84-89: the word_ids of one sentence, or the KeyError that ends the call
RECURSIVE word_ids_loop(_, _, _)
word_ids_loop(tokens, vocab_dict, word_ids) ==
    IF tokens = <<>> THEN [raised |-> FALSE, value |-> word_ids]
    ELSE LET r == lookup(vocab_dict, Head(tokens))
         IN  IF r.raised THEN [raised |-> TRUE, value |-> <<>>]
             ELSE word_ids_loop(Tail(tokens), vocab_dict, Append(word_ids, r.value))

\* lines 90-93 padding on the left (used to test C4)
pad_left_or_truncate(word_ids, pad_to) ==
    IF pad_to < Len(word_ids)
       THEN SubSeq(word_ids, 1, pad_to)
       ELSE [i \in 1..(pad_to - Len(word_ids)) |-> 0] \o word_ids

\* lines 90-93: the row stored in x[idx]
pad_or_truncate(word_ids, pad_to) ==
    IF pad_to < Len(word_ids)
       THEN SubSeq(word_ids, 1, pad_to)
       ELSE word_ids \o [i \in 1..(pad_to - Len(word_ids)) |-> 0]

\* lines 82-94: the rows of the returned array, or the KeyError
RECURSIVE convert_loop(_, _, _, _)
convert_loop(raw_sentences, vocab_dict, pad_to, x) ==
    IF raw_sentences = <<>> THEN [raised |-> FALSE, value |-> x]
    ELSE LET w == word_ids_loop(Head(raw_sentences), vocab_dict, <<>>)
         IN  IF w.raised THEN [raised |-> TRUE, value |-> <<>>]
             ELSE convert_loop(Tail(raw_sentences), vocab_dict, pad_to,
                               Append(x, pad_or_truncate(w.value, pad_to)))

convert_to_ids(raw_sentences, vocab_dict, pad_to) ==
    convert_loop(raw_sentences, vocab_dict, pad_to, <<>>)

\* ---- vectors of embedding_dim components
ConstVec(c) == [i \in 1..embedding_dim |-> c]
zeros == ConstVec(0)              \* torch.zeros((1, 50))
ones == ConstVec(1)               \* torch.ones((1, 50))
\* pretrained vectors: one without and one with a component equal to 0
GloveVecs == {ConstVec(2), [i \in 1..embedding_dim |-> IF i = 1 THEN 0 ELSE 2]}
\* what an uninitialised row of torch.empty may hold
GarbageVecs == {zeros, ConstVec(3)}

\* ---- get_glove_embeddings (lines 96-104)
\* The file content is kept as glove.split("\n"): the pieces between the
\* newlines.  A piece is a line "<token> <float> ... <float>" or the empty
\* piece that follows a final newline.
BlankPiece == [token |-> "", vec |-> <<>>]
GloveLines == [token : Tokens, vec : GloveVecs]
\* files whose lines are all well formed, with or without a final newline
GloveFiles ==
    {ls \o <<last>> : ls \in SeqsUpTo(GloveLines, MaxLines),
                      last \in GloveLines \cup {BlankPiece}}

\* the loop of lines 100-103 over the pieces it is given
RECURSIVE glove_loop(_, _, _)
glove_loop(pieces, vocab_dict, embeddings_dict) ==
    IF pieces = <<>> THEN embeddings_dict
    ELSE LET text == Head(pieces)
         IN  IF text.token \in DOMAIN vocab_dict
                THEN glove_loop(Tail(pieces), vocab_dict,
                                dict_set(embeddings_dict, vocab_dict[text.token], text.vec))
                ELSE glove_loop(Tail(pieces), vocab_dict, embeddings_dict)

\* glove.split("\n")[:-1] and the loop
get_glove_embeddings(vocab_dict, pieces) ==
    glove_loop(SubSeq(pieces, 1, Len(pieces) - 1), vocab_dict, EmptyDict)

\* ---- get_glove_table (lines 106-114)
\* line 112 assigning the zero vector to unknown tokens (used to test C6)
get_glove_table_unknown_zeros(vocab_dict, glove_dict, garbage) ==
    [r \in 0..(Cardinality(DOMAIN vocab_dict) + 1) |->
        IF r = 0 THEN zeros
        ELSE IF r \in Range(vocab_dict)
                THEN IF r \in DOMAIN glove_dict THEN glove_dict[r] ELSE zeros
                ELSE garbage]

\* torch.empty((len(vocab_dict)+2, 50)) holds garbage; the loop of lines
\* 108-112 writes the rows of the vocabulary ids, line 113 then writes row 0.
get_glove_table(vocab_dict, glove_dict, garbage) ==
    [r \in 0..(Cardinality(DOMAIN vocab_dict) + 1) |->
        IF r = 0 THEN zeros
        ELSE IF r \in Range(vocab_dict)
                THEN IF r \in DOMAIN glove_dict THEN glove_dict[r] ELSE ones
                ELSE garbage]

\* ---- SentimentLSTM.forward, lines 131-136
\* torch.sum(x[:, sentence_idx, :] == 0): the zero components of the
\* embedded sentence, over all its time steps
n_zeros(row, weight) ==
    Cardinality({tc \in (1..Len(row)) \X (1..embedding_dim) :
                    weight[row[tc[1]]][tc[2]] = 0})

\* args.seq_len - n_zeros / 50, a true division: the rational num/den
lenght(row, weight, sl) ==
    [num |-> sl * embedding_dim - n_zeros(row, weight), den |-> embedding_dim]

\* ---- values of the variables a specification does not use
NoArray == [raised |-> FALSE, value |-> <<>>]

PrepIdle ==
    /\ x_train_raw = <<>>
    /\ x_dev_raw = <<>>
    /\ x_val_raw = <<>>
    /\ token_ids = EmptyDict
    /\ msl = 0
    /\ seq_len = 0
    /\ glove = <<BlankPiece>>
    /\ glove_embeddings = EmptyDict
    /\ x_train = NoArray
    /\ x_dev = NoArray
    /\ x_val = NoArray
    /\ look_up_table = <<>>
    /\ lenghts = <<>>

TrainIdle ==
    /\ TRAIN = TRUE
    /\ SAVE_MODEL = TRUE
    /\ args = [batch_size |-> 1, n_epochs |-> 1]
    /\ len_x = [train |-> 1, val |-> 1, dev |-> 1]
    /\ epoch = 0
    /\ batch = 0
    /\ slices = <<>>
    /\ correct = 0
    /\ model = [params |-> 0, running |-> 0, training |-> TRUE]
    /\ acc_train = Unbound
    /\ acc_val = Unbound
    /\ acc_dev_best = Unbound
    /\ acc_test = Unbound
    /\ file = NoFile
    /\ hist = <<>>

\* ------------------------------------------------------------- Init
Init ==
    /\ TRAIN \in BOOLEAN
    /\ SAVE_MODEL \in BOOLEAN
    /\ args \in [batch_size : 1..MaxBatchSize, n_epochs : 1..MaxEpochs]
    /\ len_x \in [train : 1..MaxExamples, val : 1..MaxExamples, dev : 1..MaxExamples]
    /\ pc = "start"
    /\ epoch = 0
    /\ batch = 0
    /\ slices = <<>>
    /\ correct = 0
    /\ model = [params |-> 0, running |-> 0, training |-> TRUE]
    /\ acc_train = Unbound
    /\ acc_val = Unbound
    /\ acc_dev_best = Unbound
    /\ acc_test = Unbound
    /\ file \in {NoFile, <<StaleState>>}
    /\ hist = <<>>
    /\ PrepIdle

\* ------------------------------------------------------------- actions
\* lines 188-190
Start ==
    /\ pc = "start"
    /\ IF TRAIN
          THEN /\ acc_dev_best' = 0
               /\ pc' = "epoch_start"
          ELSE /\ acc_dev_best' = acc_dev_best
               /\ pc' = "final_load"
    /\ UNCHANGED <<TRAIN, SAVE_MODEL, args, len_x, epoch, batch, slices, correct,
                   model, acc_train, acc_val, acc_test, file, hist>>
    /\ UNCHANGED prepVars

\* lines 191-196: next iteration of the epoch loop, model.train()
EpochStart ==
    /\ pc = "epoch_start"
    /\ epoch < args.n_epochs
    /\ model' = [model EXCEPT !.training = TRUE]
    /\ batch' = 0
    /\ slices' = <<>>
    /\ pc' = "batch_train"
    /\ UNCHANGED <<TRAIN, SAVE_MODEL, args, len_x, epoch, correct,
                   acc_train, acc_val, acc_dev_best, acc_test, file, hist>>
    /\ UNCHANGED prepVars

\* line 191: range(args.n_epochs) is exhausted
EpochLoopExit ==
    /\ pc = "epoch_start"
    /\ epoch = args.n_epochs
    /\ pc' = "final_load"
    /\ UNCHANGED <<TRAIN, SAVE_MODEL, args, len_x, epoch, batch, slices, correct,
                   model, acc_train, acc_val, acc_dev_best, acc_test, file, hist>>
    /\ UNCHANGED prepVars

\* lines 197-207: one training mini-batch
TrainBatch ==
    /\ pc = "batch_train"
    /\ batch < n_batches(len_x.train)
    /\ slices' = Append(slices, inds(len_x.train, batch))
    /\ model' = optimizer_step(forward(model))
    /\ batch' = batch + 1
    /\ UNCHANGED <<TRAIN, SAVE_MODEL, args, len_x, pc, epoch, correct,
                   acc_train, acc_val, acc_dev_best, acc_test, file, hist>>
    /\ UNCHANGED prepVars

\* line 197 exhausted; line 209 enters acc(x_train, y_train)
TrainDone ==
    /\ pc = "batch_train"
    /\ batch = n_batches(len_x.train)
    /\ pc' = "acc_train"
    /\ batch' = 0
    /\ slices' = <<>>
    /\ correct' = 0
    /\ UNCHANGED <<TRAIN, SAVE_MODEL, args, len_x, epoch,
                   model, acc_train, acc_val, acc_dev_best, acc_test, file, hist>>
    /\ UNCHANGED prepVars

\* lines 60-62: one batch of acc; the predictions of the slice are whatever
\* the network yields, c of them are right.
AccBatch ==
    /\ pc \in {"acc_train", "acc_val", "acc_test"}
    /\ batch < n_batches(acc_len(pc))
    /\ \E c \in 0..Len(inds(acc_len(pc), batch)) : correct' = correct + c
    /\ slices' = Append(slices, inds(acc_len(pc), batch))
    /\ model' = forward(model)
    /\ batch' = batch + 1
    /\ UNCHANGED <<TRAIN, SAVE_MODEL, args, len_x, pc, epoch,
                   acc_train, acc_val, acc_dev_best, acc_test, file, hist>>
    /\ UNCHANGED prepVars

\* lines 63-67 and 209: acc(x_train, y_train) returns
AccTrainDone ==
    /\ pc = "acc_train"
    /\ batch = n_batches(len_x.train)
    /\ acc_train' = accuracy_score100(correct)
    /\ pc' = "acc_val"
    /\ batch' = 0
    /\ slices' = <<>>
    /\ correct' = 0
    /\ UNCHANGED <<TRAIN, SAVE_MODEL, args, len_x, epoch,
                   model, acc_val, acc_dev_best, acc_test, file, hist>>
    /\ UNCHANGED prepVars

\* lines 211-215: acc(x_val, y_val, return_labels=True) returns, acc_val
AccValDone ==
    /\ pc = "acc_val"
    /\ batch = n_batches(len_x.val)
    /\ acc_val' = accuracy_score100(correct)
    /\ pc' = "checkpoint_check"
    /\ UNCHANGED <<TRAIN, SAVE_MODEL, args, len_x, epoch, batch, slices, correct,
                   model, acc_train, acc_dev_best, acc_test, file, hist>>
    /\ UNCHANGED prepVars

\* lines 217-220, and the end of the body of the epoch loop
CheckpointCheck ==
    /\ pc = "checkpoint_check"
    /\ IF improves(acc_val, acc_dev_best, SAVE_MODEL)
          THEN /\ acc_dev_best' = acc_val
               /\ file' = <<state_dict(model)>>
          ELSE /\ acc_dev_best' = acc_dev_best
               /\ file' = file
    /\ hist' = Append(hist, [acc |-> acc_val, sd |-> state_dict(model),
                             saved |-> improves(acc_val, acc_dev_best, SAVE_MODEL)])
    /\ epoch' = epoch + 1
    /\ pc' = "epoch_start"
    /\ UNCHANGED <<TRAIN, SAVE_MODEL, args, len_x, batch, slices, correct,
                   model, acc_train, acc_val, acc_test>>
    /\ UNCHANGED prepVars

\* lines 223-225: torch.load of the checkpoint file, load_state_dict,
\* model.eval(), and entry into acc(x_dev, y_dev, return_labels=True)
FinalLoad ==
    /\ pc = "final_load"
    /\ IF file = NoFile
          THEN /\ pc' = "failed"        \* FileNotFoundError
               /\ model' = model
          ELSE /\ pc' = "acc_test"
               /\ model' = [params |-> file[1].params, running |-> file[1].running,
                            training |-> FALSE]
    /\ batch' = 0
    /\ slices' = <<>>
    /\ correct' = 0
    /\ UNCHANGED <<TRAIN, SAVE_MODEL, args, len_x, epoch,
                   acc_train, acc_val, acc_dev_best, acc_test, file, hist>>
    /\ UNCHANGED prepVars

\* lines 225-226: the test accuracy is reported
FinalTest ==
    /\ pc = "acc_test"
    /\ batch = n_batches(len_x.dev)
    /\ acc_test' = accuracy_score100(correct)
    /\ pc' = "done"
    /\ UNCHANGED <<TRAIN, SAVE_MODEL, args, len_x, epoch, batch, slices, correct,
                   model, acc_train, acc_val, acc_dev_best, file, hist>>
    /\ UNCHANGED prepVars

Next ==
    \/ Start
    \/ EpochStart
    \/ EpochLoopExit
    \/ TrainBatch
    \/ TrainDone
    \/ AccBatch
    \/ AccTrainDone
    \/ AccValDone
    \/ CheckpointCheck
    \/ FinalLoad
    \/ FinalTest

Spec == Init /\ [][Next]_vars

TypeOK ==
    /\ pc \in {"start", "epoch_start", "batch_train", "acc_train", "acc_val",
               "checkpoint_check", "final_load", "acc_test", "done", "failed"}
    /\ epoch \in 0..args.n_epochs

\* ======================================================================
\* Data preparation: specifications
\* ======================================================================
\* ---- the vocabulary of three splits (lines 161-164)
\* the three splits are a corpus of at most MaxSentences sentences cut in three
InitVocab ==
    /\ pc = "extract_vocab"
    /\ \E corpus \in Splits :
          \E i \in 0..Len(corpus) :
             \E j \in i..Len(corpus) :
                /\ x_train_raw = SubSeq(corpus, 1, i)
                /\ x_dev_raw = SubSeq(corpus, i + 1, j)
                /\ x_val_raw = SubSeq(corpus, j + 1, Len(corpus))
    /\ token_ids = EmptyDict
    /\ msl = 0
    /\ seq_len = 0
    /\ glove = <<BlankPiece>>
    /\ glove_embeddings = EmptyDict
    /\ x_train = NoArray
    /\ x_dev = NoArray
    /\ x_val = NoArray
    /\ look_up_table = <<>>
    /\ lenghts = <<>>
    /\ TrainIdle

\* lines 69-78 and 161-164 (args.seq_len is "get_max_from_data")
ExtractVocab ==
    /\ pc = "extract_vocab"
    /\ LET r == extract_loop(x_train_raw \o x_dev_raw \o x_val_raw, <<>>, 0)
       IN  /\ \E order \in Orders(Range(r.tokens)) : token_ids' = zip_ids(order)
           /\ msl' = r.ms_len
           /\ seq_len' = r.ms_len
    /\ pc' = "glove_embeddings"
    /\ UNCHANGED <<x_train_raw, x_dev_raw, x_val_raw, glove, glove_embeddings,
                   x_train, x_dev, x_val, look_up_table, lenghts>>
    /\ UNCHANGED <<TRAIN, SAVE_MODEL, args, len_x, epoch, batch, slices, correct,
                   model, acc_train, acc_val, acc_dev_best, acc_test, file, hist>>

NextVocab == ExtractVocab

SpecVocab == InitVocab /\ [][NextVocab]_vars

\* line 167
GetGloveEmbeddings ==
    /\ pc = "glove_embeddings"
    /\ glove_embeddings' = get_glove_embeddings(token_ids, glove)
    /\ pc' = "convert_to_ids"
    /\ UNCHANGED <<x_train_raw, x_dev_raw, x_val_raw, token_ids, msl, seq_len, glove,
                   x_train, x_dev, x_val, look_up_table, lenghts>>
    /\ UNCHANGED <<TRAIN, SAVE_MODEL, args, len_x, epoch, batch, slices, correct,
                   model, acc_train, acc_val, acc_dev_best, acc_test, file, hist>>

\* lines 170-172; a KeyError ends the script, the later calls are not made
ConvertToIds ==
    /\ pc = "convert_to_ids"
    /\ x_train' = convert_to_ids(x_train_raw, token_ids, seq_len)
    /\ x_dev' = IF x_train'.raised THEN x_dev
                ELSE convert_to_ids(x_dev_raw, token_ids, seq_len)
    /\ x_val' = IF x_train'.raised \/ x_dev'.raised THEN x_val
                ELSE convert_to_ids(x_val_raw, token_ids, seq_len)
    /\ pc' = IF x_train'.raised \/ x_dev'.raised \/ x_val'.raised
                THEN "failed" ELSE "glove_table"
    /\ UNCHANGED <<x_train_raw, x_dev_raw, x_val_raw, token_ids, msl, seq_len, glove,
                   glove_embeddings, look_up_table, lenghts>>
    /\ UNCHANGED <<TRAIN, SAVE_MODEL, args, len_x, epoch, batch, slices, correct,
                   model, acc_train, acc_val, acc_dev_best, acc_test, file, hist>>

\* lines 180-181
GetGloveTable ==
    /\ pc = "glove_table"
    /\ \E garbage \in GarbageVecs :
          look_up_table' = get_glove_table(token_ids, glove_embeddings, garbage)
    /\ pc' = "forward"
    /\ UNCHANGED <<x_train_raw, x_dev_raw, x_val_raw, token_ids, msl, seq_len, glove,
                   glove_embeddings, x_train, x_dev, x_val, lenghts>>
    /\ UNCHANGED <<TRAIN, SAVE_MODEL, args, len_x, epoch, batch, slices, correct,
                   model, acc_train, acc_val, acc_dev_best, acc_test, file, hist>>

\* lines 131-136 on the batch x_train, the embedding weights being the
\* table copied in at line 181
Forward ==
    /\ pc = "forward"
    /\ lenghts' = [sentence_idx \in 1..Len(x_train.value) |->
                      lenght(x_train.value[sentence_idx], look_up_table, seq_len)]
    /\ pc' = "forward_done"
    /\ UNCHANGED <<x_train_raw, x_dev_raw, x_val_raw, token_ids, msl, seq_len, glove,
                   glove_embeddings, x_train, x_dev, x_val, look_up_table>>
    /\ UNCHANGED <<TRAIN, SAVE_MODEL, args, len_x, epoch, batch, slices, correct,
                   model, acc_train, acc_val, acc_dev_best, acc_test, file, hist>>

\* ---- convert_to_ids on any array of sentences, with any vocabulary that
\* extract_vocab_dict_and_msl can return and any pad_to
InitEncode ==
    /\ pc = "convert_to_ids"
    /\ x_train_raw \in Splits
    /\ x_dev_raw = <<>>
    /\ x_val_raw = <<>>
    /\ token_ids \in Vocabs
    /\ msl = 0
    /\ seq_len \in 0..MaxPad
    /\ glove = <<BlankPiece>>
    /\ glove_embeddings = EmptyDict
    /\ x_train = NoArray
    /\ x_dev = NoArray
    /\ x_val = NoArray
    /\ look_up_table = <<>>
    /\ lenghts = <<>>
    /\ TrainIdle

NextEncode == ConvertToIds

SpecEncode == InitEncode /\ [][NextEncode]_vars

\* ---- the preparation of lines 161-181 and the lengths of forward, for a
\* training split of at most MaxRows sentences and a pretrained file
InitPrep ==
    /\ pc = "extract_vocab"
    /\ x_train_raw \in Batches
    /\ x_dev_raw = <<>>
    /\ x_val_raw = <<>>
    /\ token_ids = EmptyDict
    /\ msl = 0
    /\ seq_len = 0
    /\ glove \in GloveFiles
    /\ glove_embeddings = EmptyDict
    /\ x_train = NoArray
    /\ x_dev = NoArray
    /\ x_val = NoArray
    /\ look_up_table = <<>>
    /\ lenghts = <<>>
    /\ TrainIdle

NextPrep ==
    \/ ExtractVocab
    \/ GetGloveEmbeddings
    \/ ConvertToIds
    \/ GetGloveTable
    \/ Forward

SpecPrep == InitPrep /\ [][NextPrep]_vars

\* ======================================================================
\* Properties of the data preparation
\* ======================================================================
AllRaw == x_train_raw \o x_dev_raw \o x_val_raw
CorpusTokens == UNION {Range(sentence) : sentence \in Range(AllRaw)}
Converted == pc \in {"glove_table", "forward", "forward_done", "failed"}
AllTokensKnown ==
    \A sentence \in Range(x_train_raw) : Range(sentence) \subseteq DOMAIN token_ids

\* C5: the returned mapping is a bijection between the distinct tokens of
\* the three splits and 1..N, id 0 is never assigned, and the returned
\* length is the largest token count of a sentence (0 without sentences).
C5_VocabBijection ==
    (pc = "glove_embeddings") =>
        /\ DOMAIN token_ids = CorpusTokens
        /\ Range(token_ids) = 1..Cardinality(CorpusTokens)
        /\ \A t, u \in DOMAIN token_ids : token_ids[t] = token_ids[u] => t = u
        /\ 0 \notin Range(token_ids)
        /\ \A sentence \in Range(AllRaw) : Len(sentence) <= msl
        /\ \/ \E sentence \in Range(AllRaw) : Len(sentence) = msl
           \/ (msl = 0 /\ \A sentence \in Range(AllRaw) : Len(sentence) = 0)

\* C5 witness: two distinct tokens, one of them occurring in two splits.
C5_Witness ==
    /\ pc = "glove_embeddings"
    /\ Cardinality(CorpusTokens) = 2
    /\ \E t \in Tokens :
          /\ \E sentence \in Range(x_train_raw) : t \in Range(sentence)
          /\ \E sentence \in Range(x_val_raw) : t \in Range(sentence)
    /\ msl = 2

\* C4: when every token is in the vocabulary, each output row has exactly
\* pad_to entries: the first pad_to token ids if the sentence is longer than
\* pad_to, otherwise all its token ids followed by 0s only.
C4_PadTruncate ==
    (Converted /\ AllTokensKnown) =>
        /\ ~x_train.raised
        /\ Len(x_train.value) = Len(x_train_raw)
        /\ \A idx \in 1..Len(x_train_raw) :
              LET sentence == x_train_raw[idx]
                  row == x_train.value[idx]
              IN  /\ Len(row) = seq_len
                  /\ \A k \in 1..seq_len :
                        row[k] = IF k <= Len(sentence) THEN token_ids[sentence[k]] ELSE 0

\* C4 witness: an array of a two-token and a one-token sentence encoded
\* with pad_to = 2 (the second row is padded), and pad_to = 1 (the first
\* row is truncated).
C4_Witness ==
    /\ pc = "glove_table"
    /\ Len(x_train_raw) = 2
    /\ Len(x_train_raw[1]) = 2
    /\ Len(x_train_raw[2]) = 1
    /\ \/ /\ seq_len = 2
          /\ x_train.value[2] = <<token_ids[x_train_raw[2][1]], 0>>
       \/ /\ seq_len = 1
          /\ x_train.value[1] = <<token_ids[x_train_raw[1][1]]>>

\* C7: a token that is absent from the vocabulary ends the call with the
\* lookup failure: no array is returned, no id stands in for the token.
C7_UnknownTokenIsFatal ==
    (Converted /\ ~AllTokensKnown) =>
        /\ x_train.raised
        /\ x_train.value = <<>>
        /\ pc = "failed"

\* C7 witness: a sentence whose first token is known and whose second is not.
C7_Witness ==
    /\ pc = "failed"
    /\ x_train.raised
    /\ Len(x_train_raw) >= 1
    /\ Len(x_train_raw[1]) = 2
    /\ x_train_raw[1][1] \in DOMAIN token_ids
    /\ x_train_raw[1][2] \notin DOMAIN token_ids

\* C6: the table has V+2 rows, row 0 is the zero vector, the row of a
\* vocabulary id that the parsed pretrained mapping holds is that vector,
\* and the row of any other vocabulary id is the all-ones vector.
C6_EmbeddingTable ==
    (pc \in {"forward", "forward_done"}) =>
        /\ DOMAIN look_up_table = 0..(Cardinality(DOMAIN token_ids) + 1)
        /\ look_up_table[0] = zeros
        /\ \A t \in DOMAIN token_ids :
              look_up_table[token_ids[t]] =
                 IF token_ids[t] \in DOMAIN glove_embeddings
                    THEN glove_embeddings[token_ids[t]] ELSE ones

\* C6 witness: a vocabulary of two tokens, one with and one without a
\* pretrained vector.
C6_Witness ==
    /\ pc = "forward"
    /\ look_up_table[0] = zeros
    /\ Cardinality(DOMAIN token_ids) = 2
    /\ Cardinality(DOMAIN glove_embeddings) = 1
    /\ \E t \in DOMAIN token_ids : look_up_table[token_ids[t]] = ones
    /\ \E t \in DOMAIN token_ids : look_up_table[token_ids[t]] \in GloveVecs

\* C8: for an encoded row that holds at least one token, and an embedding
\* table whose row 0 is zero, the length forward computes is a whole number,
\* equals the number of non-padding tokens of the row and lies in 1..seq_len.
C8_LengthIsTokenCount ==
    (pc = "forward_done") =>
        \A idx \in 1..Len(lenghts) :
            LET row == x_train.value[idx]
                k == Cardinality({t \in 1..Len(row) : row[t] # 0})
            IN  (k >= 1 /\ look_up_table[0] = zeros) =>
                    /\ lenghts[idx].num = k * lenghts[idx].den
                    /\ lenghts[idx].num >= lenghts[idx].den
                    /\ lenghts[idx].num <= seq_len * lenghts[idx].den

\* ======================================================================
\* Properties of the training / evaluation loop
\* ======================================================================
RECURSIVE MaxAcc(_)
MaxAcc(h) ==
    IF Len(h) = 0 THEN 0
    ELSE LET m == MaxAcc(SubSeq(h, 1, Len(h) - 1))
         IN  IF h[Len(h)].acc > m THEN h[Len(h)].acc ELSE m

RECURSIVE Flatten(_)
Flatten(ss) == IF Len(ss) = 0 THEN <<>> ELSE Head(ss) \o Flatten(Tail(ss))

WrittenThisRun == \E i \in 1..Len(hist) : hist[i].saved

\* the pass over a data set of n examples has handed all its slices out
PassComplete ==
    \/ pc = "batch_train" /\ batch = n_batches(len_x.train)
    \/ pc \in {"acc_train", "acc_val", "acc_test"} /\ batch = n_batches(acc_len(pc))
    \/ pc \in {"checkpoint_check", "done"}

PassLen ==
    CASE pc = "batch_train" -> len_x.train
      [] pc = "checkpoint_check" -> len_x.val
      [] pc = "done" -> len_x.dev
      [] OTHER -> acc_len(pc)

\* C1: with TRAIN and SAVE_MODEL enabled, after the checkpoint check of
\* every epoch e the checkpoint file was written by this run and holds the
\* model state of an epoch whose validation accuracy is the maximum of the
\* validation accuracies of epochs 0..e; the accuracies of the successive
\* saves never decrease.
C1_MonotonicCheckpoint ==
    (TRAIN /\ SAVE_MODEL /\ Len(hist) >= 1) =>
        /\ \E i \in 1..Len(hist) :
              /\ hist[i].saved
              /\ file = <<hist[i].sd>>
              /\ hist[i].acc = MaxAcc(hist)
        /\ \A i, j \in 1..Len(hist) :
              (i < j /\ hist[i].saved /\ hist[j].saved) => hist[i].acc <= hist[j].acc

\* C2: the checkpoint file is written, and acc_dev_best updated, in the
\* checkpoint check of an epoch exactly when that epoch's validation
\* accuracy strictly exceeds acc_dev_best (0 at the start of training) and
\* SAVE_MODEL is set; otherwise, and in every other step, the file and
\* acc_dev_best stay as they are.
C2_CheckpointIffStrictlyBetter ==
    [][ /\ (pc = "start" /\ TRAIN) => (acc_dev_best' = 0 /\ file' = file)
        /\ (pc = "checkpoint_check" /\ acc_val > acc_dev_best /\ SAVE_MODEL) =>
              /\ file' = <<state_dict(model)>>
              /\ acc_dev_best' = acc_val
              /\ hist'[Len(hist')].saved
        /\ (pc = "checkpoint_check" /\ ~(acc_val > acc_dev_best /\ SAVE_MODEL)) =>
              /\ file' = file
              /\ acc_dev_best' = acc_dev_best
              /\ ~hist'[Len(hist')].saved
        /\ (pc \notin {"start", "checkpoint_check"}) =>
              /\ file' = file
              /\ acc_dev_best' = acc_dev_best
      ]_vars

\* C2 witness: a run with saving enabled in which the first epoch saved a
\* checkpoint and the second epoch, whose validation accuracy ties the best
\* so far, did not.
C2_Witness ==
    /\ SAVE_MODEL
    /\ Len(hist) = 2
    /\ hist[1].saved
    /\ ~hist[2].saved
    /\ hist[2].acc = hist[1].acc
    /\ file = <<hist[1].sd>>

\* C3: with TRAIN and SAVE_MODEL enabled the run never fails, the terminal
\* step is reached only after exactly n_epochs epochs and after a checkpoint
\* was written during this run, and the reported test accuracy lies in
\* [0, 100].
C3_RunToCompletion ==
    (TRAIN /\ SAVE_MODEL) =>
        /\ pc # "failed"
        /\ (pc \in {"final_load", "acc_test", "done"}) =>
              (Len(hist) = args.n_epochs /\ WrittenThisRun)
        /\ (pc = "done") => (0 <= acc_test /\ acc_test <= 100 * len_x.dev)

\* C9: the accuracy computations of an epoch run with the model in
\* evaluation mode and leave the state a checkpoint captures unchanged.
C9_AccLeavesModelStateUnchanged ==
    [][ (pc \in {"acc_train", "acc_val"}) =>
            (~model.training /\ state_dict(model') = state_dict(model)) ]_vars

\* C10: every slice handed to the model has at least 1 and at most
\* batch_size examples, and the slices of a complete pass are the examples
\* 0..N-1, each once, in their order.
C10_SlicesNonEmptyAndCover ==
    /\ \A i \in 1..Len(slices) :
          1 <= Len(slices[i]) /\ Len(slices[i]) <= args.batch_size
    /\ PassComplete => Flatten(slices) = [i \in 1..PassLen |-> i - 1]
====
